---- MODULE Spec2Model ----
(***************************************************************************)
(* Verification model of parts of pymatgen:                                *)
(*   - pymatgen/entries/entry_tools.py  (group_entries_by_structure,       *)
(*     _perform_grouping, EntrySet)                                        *)
(*   - pymatgen/analysis/fragmenter.py  (Fragmenter)                       *)
(*   - pymatgen/analysis/defects/old_thermodynamics.py                     *)
(*     (DefectPhaseDiagram)                                                *)
(*   - pymatgen/analysis/defects/utils.py  (genrecip, QModel)              *)
(*   - pymatgen/phonon/ir_spectra.py  (IRDielectricTensorGenerator)        *)
(*   - pymatgen/analysis/pourbaix_diagram.py  (MultiEntry,                 *)
(*     PourbaixDiagram) and                                                *)
(*     pymatgen/analysis/chemenv/connectivity/environment_nodes.py         *)
(*     (EnvironmentNode), both as their tests describe them                *)
(* Each subsystem has its own specification (SpecGroup, SpecEntrySet,      *)
(* SpecFrag, SpecDPD, SpecRecip, SpecIR, SpecQModel, SpecPourbaix,         *)
(* SpecEnvNode); the variables of the other subsystems stay at their idle  *)
(* values.                                                                 *)
(***************************************************************************)
EXTENDS Integers, Sequences, FiniteSets, TLC

VARIABLES
    \* ---- group_entries_by_structure -------------------------------------
    entries,            \* argument: sequence of ComputedStructureEntries
    species_to_remove,  \* argument: TRUE when species are to be removed
    stol,               \* argument: site tolerance of the StructureMatcher
    comparator,         \* argument: which comparator object is used
    ncpus,              \* argument: 0 models None (serial processing)
    pc,                 \* position of the caller in group_entries_by_structure
    tasks,              \* the argument tuples handed to _perform_grouping
    wstate,             \* per task: "pending", "running" or "done"
    unmatched,          \* per task: local variable unmatched of _perform_grouping
    groups,             \* the (manager) list of json-encoded groups
    entry_groups,       \* the returned value
    \* ---- EntrySet -------------------------------------------------------
    es_entries,         \* EntrySet.entries (a set of entries)
    es_op,              \* the last method called on the EntrySet
    es_prev,            \* EntrySet.entries when that call began
    chemsys,            \* argument of the last get_subset_in_chemsys
    subset,             \* entries of the EntrySet it returned
    \* ---- Fragmenter -----------------------------------------------------
    mol_graph,              \* self.mol_graph
    depth,                  \* argument depth
    open_rings,             \* self.open_rings
    prev_unique_frag_dict,  \* self.prev_unique_frag_dict
    unique_fragments,       \* self.unique_fragments (depth 0 only)
    level_unique_frag_dict, \* self.level_unique_frag_dict
    fragments_by_level,     \* self.fragments_by_level: entry k+1 is level k
    new_unique_frag_dict,   \* self.new_unique_frag_dict
    unique_frag_dict,       \* self.unique_frag_dict
    new_unique_fragments,   \* self.new_unique_fragments
    total_unique_fragments, \* self.total_unique_fragments
    level,                  \* loop variable of the level loop
    fr_pc,                  \* position in Fragmenter.__init__
    \* ---- DefectPhaseDiagram ---------------------------------------------
    dentries,           \* self.dentries
    band_gap,           \* self.band_gap (in steps of the fermi level grid)
    stable_charges,     \* self.stable_charges
    finished_charges,   \* self.finished_charges
    transition_levels,  \* self.transition_levels
    dpd_op,             \* the last call made on the diagram
    dpd_arg,            \* its argument (the defect of add_defect_entry)
    dpd_err,            \* the exception it raised, or "none"
    dpd_result,         \* the value it returned
    \* ---- genrecip ----------------------------------------------------------
    rec_lattice,          \* arguments a1, a2, a3 (integer components)
    rec_encut,            \* argument encut, as (gcut * vol / 2 pi) squared
    rec_op,               \* the generator consumed last
    rec_result,           \* the values it yielded, in order
    \* ---- IRDielectricTensorGenerator ---------------------------------------
    phfreqs_gamma,        \* self.phfreqs_gamma
    ir_op,                \* the last call made on the generator
    ir_args,              \* its arguments broad, emin, emax, divs
    ir_err,               \* the exception it raised, or "none"
    ir_broad,             \* local broad after the float has been expanded
    ir_g,                 \* the damping g of every mode the loop visited
    ir_frequencies,       \* IRSpectra.frequencies of the result
    \* ---- QModel ------------------------------------------------------------
    qm_op,                \* "init" before the constructor call, "QModel" after it
    qm_args,              \* the arguments of the call: <<>> is None
    qm_given,             \* the names of the arguments the caller passed
    qm_err,               \* the exception it raised, or "none"
    qm_obj,               \* the attributes of the constructed QModel
    \* ---- MultiEntry and PourbaixDiagram ------------------------------------
    pbx_op,               \* the last call made
    pbx_multi,            \* the MultiEntry constructed last
    pbx_multi_new,        \* MultiEntry.from_dict(pbx_multi.as_dict())
    pbx_all,              \* the entries given to the PourbaixDiagram
    pbx_processed,        \* its processed (multi-)entries
    pbx_stable,           \* PourbaixDiagram.stable_entries
    pbx_found,            \* <<entry, pH, V>> of the last find_stable_entry
    pbx_arg,              \* <<entry, pH, V>> of the last get_decomposition_energy
    pbx_err,              \* the exception the last call raised, or "none"
    pbx_result,           \* the value get_decomposition_energy returned
    \* ---- EnvironmentNode ---------------------------------------------------
    en_op,                \* the last operation on environment nodes
    en,                   \* the node the operation was called on
    en_other,             \* the node it was compared with
    en_eq,                \* the value of en == en_other
    en_everything_equal   \* the value of en.everything_equal(en_other)

grpVars == <<entries, species_to_remove, stol, comparator, ncpus, pc, tasks,
             wstate, unmatched, groups, entry_groups>>

esVars == <<es_entries, es_op, es_prev, chemsys, subset>>

frVars == <<mol_graph, depth, open_rings, prev_unique_frag_dict, unique_fragments,
            level_unique_frag_dict, fragments_by_level, new_unique_frag_dict,
            unique_frag_dict, new_unique_fragments, total_unique_fragments,
            level, fr_pc>>

dpdVars == <<dentries, band_gap, stable_charges, finished_charges,
             transition_levels, dpd_op, dpd_arg, dpd_err, dpd_result>>

recVars == <<rec_lattice, rec_encut, rec_op, rec_result>>

irVars == <<phfreqs_gamma, ir_op, ir_args, ir_err, ir_broad, ir_g, ir_frequencies>>

qmVars == <<qm_op, qm_args, qm_given, qm_err, qm_obj>>

pbxVars == <<pbx_op, pbx_multi, pbx_multi_new, pbx_all, pbx_processed, pbx_stable, pbx_found, pbx_arg, pbx_err, pbx_result>>

enVars == <<en_op, en, en_other, en_eq, en_everything_equal>>

vars == <<grpVars, esVars, frVars, dpdVars, recVars, irVars, qmVars, pbxVars, enVars>>

\* ------------------------------------------------------------------------
\* A subsystem that is not exercised keeps its variables at these values.
\* ------------------------------------------------------------------------
GrpIdle ==
    /\ entries = <<>> /\ species_to_remove = FALSE /\ stol = 0
    /\ comparator = "species" /\ ncpus = 0 /\ pc = "idle" /\ tasks = <<>>
    /\ wstate = <<>> /\ unmatched = <<>> /\ groups = <<>> /\ entry_groups = <<>>

EsIdle ==
    /\ es_entries = {} /\ es_op = "idle" /\ es_prev = {} /\ chemsys = {} /\ subset = {}

FrIdle ==
    /\ mol_graph = <<>> /\ depth = 0 /\ open_rings = FALSE
    /\ prev_unique_frag_dict = <<>> /\ unique_fragments = <<>>
    /\ level_unique_frag_dict = <<>> /\ fragments_by_level = <<>>
    /\ new_unique_frag_dict = <<>> /\ unique_frag_dict = <<>>
    /\ new_unique_fragments = 0 /\ total_unique_fragments = 0
    /\ level = 0 /\ fr_pc = "idle"

DpdIdle ==
    /\ dentries = <<>> /\ band_gap = 0 /\ stable_charges = <<>>
    /\ finished_charges = <<>> /\ transition_levels = <<>>
    /\ dpd_op = "idle" /\ dpd_arg = <<>> /\ dpd_err = "none" /\ dpd_result = <<>>

RecIdle ==
    /\ rec_lattice = <<>> /\ rec_encut = 0 /\ rec_op = "idle" /\ rec_result = <<>>

IrIdle ==
    /\ phfreqs_gamma = <<>> /\ ir_op = "idle" /\ ir_args = <<>> /\ ir_err = "none"
    /\ ir_broad = <<>> /\ ir_g = <<>> /\ ir_frequencies = <<>>

QmIdle ==
    /\ qm_op = "idle" /\ qm_args = <<>> /\ qm_given = {} /\ qm_err = "none" /\ qm_obj = <<>>

PbxIdle ==
    /\ pbx_op = "idle" /\ pbx_multi = <<>> /\ pbx_multi_new = <<>> /\ pbx_all = {}
    /\ pbx_processed = {} /\ pbx_stable = {} /\ pbx_found = <<>> /\ pbx_arg = <<>>
    /\ pbx_err = "none" /\ pbx_result = 0

EnIdle ==
    /\ en_op = "idle" /\ en = <<>> /\ en_other = <<>> /\ en_eq = FALSE
    /\ en_everything_equal = FALSE

GrpOthersIdle == EsIdle /\ FrIdle /\ DpdIdle /\ RecIdle /\ IrIdle /\ QmIdle
        /\ PbxIdle /\ EnIdle
GrpOthers == UNCHANGED <<esVars, frVars, dpdVars, recVars, irVars, qmVars,
        pbxVars, enVars>>
EsOthersIdle == GrpIdle /\ FrIdle /\ DpdIdle /\ RecIdle /\ IrIdle /\ QmIdle
        /\ PbxIdle /\ EnIdle
EsOthers == UNCHANGED <<grpVars, frVars, dpdVars, recVars, irVars, qmVars,
        pbxVars, enVars>>
FrOthersIdle == GrpIdle /\ EsIdle /\ DpdIdle /\ RecIdle /\ IrIdle /\ QmIdle
        /\ PbxIdle /\ EnIdle
FrOthers == UNCHANGED <<grpVars, esVars, dpdVars, recVars, irVars, qmVars,
        pbxVars, enVars>>
DpdOthersIdle == GrpIdle /\ EsIdle /\ FrIdle /\ RecIdle /\ IrIdle /\ QmIdle
        /\ PbxIdle /\ EnIdle
DpdOthers == UNCHANGED <<grpVars, esVars, frVars, recVars, irVars, qmVars,
        pbxVars, enVars>>
RecOthersIdle == GrpIdle /\ EsIdle /\ FrIdle /\ DpdIdle /\ IrIdle /\ QmIdle
        /\ PbxIdle /\ EnIdle
RecOthers == UNCHANGED <<grpVars, esVars, frVars, dpdVars, irVars, qmVars,
        pbxVars, enVars>>
IrOthersIdle == GrpIdle /\ EsIdle /\ FrIdle /\ DpdIdle /\ RecIdle /\ QmIdle
        /\ PbxIdle /\ EnIdle
IrOthers == UNCHANGED <<grpVars, esVars, frVars, dpdVars, recVars, qmVars,
        pbxVars, enVars>>
QmOthersIdle == GrpIdle /\ EsIdle /\ FrIdle /\ DpdIdle /\ RecIdle /\ IrIdle
        /\ PbxIdle /\ EnIdle
QmOthers == UNCHANGED <<grpVars, esVars, frVars, dpdVars, recVars, irVars,
        pbxVars, enVars>>
PbxOthersIdle == GrpIdle /\ EsIdle /\ FrIdle /\ DpdIdle /\ RecIdle /\ IrIdle
        /\ QmIdle /\ EnIdle
PbxOthers == UNCHANGED <<grpVars, esVars, frVars, dpdVars, recVars, irVars,
        qmVars, enVars>>
EnOthersIdle == GrpIdle /\ EsIdle /\ FrIdle /\ DpdIdle /\ RecIdle /\ IrIdle
        /\ QmIdle /\ PbxIdle
EnOthers == UNCHANGED <<grpVars, esVars, frVars, dpdVars, recVars, irVars,
        qmVars, pbxVars>>

\* ------------------------------------------------------------------------
\* Bounds of the model
\* ------------------------------------------------------------------------
MaxEntries == 3      \* longest entries list given to group_entries_by_structure
MaxGeom == 2         \* structures have a geometry parameter in 0..MaxGeom
MaxCpus == 2         \* largest ncpus
NumIds == 1          \* entries of an EntrySet are numbered 1..NumIds
MaxEnergy == 1       \* energy_per_atom ranges over 0..MaxEnergy
MaxSetSize == 3      \* largest EntrySet
MaxDepth == 2        \* largest depth given to the Fragmenter
MaxDefects == 3      \* longest list of defect entries
MaxCharge == 1       \* defect charges range over -MaxCharge..MaxCharge
MaxDefectEnergy == 1 \* defect energies range over 0..MaxDefectEnergy
MaxGap == 2          \* band gaps range over 1..MaxGap grid steps

\* ------------------------------------------------------------------------
\* Generic helpers
\* ------------------------------------------------------------------------
Range(s) == {s[i] : i \in DOMAIN s}

Abs(x) == IF x < 0 THEN -x ELSE x

RECURSIVE Flatten(_)
Flatten(ss) == IF ss = <<>> THEN <<>> ELSE Head(ss) \o Flatten(Tail(ss))

\* number of positions of s that hold x
Count(s, x) == Cardinality({i \in DOMAIN s : s[i] = x})

\* ========================================================================
\* entry_tools.py : group_entries_by_structure / _perform_grouping
\* ========================================================================

\* A structure: a framework geometry and the number of removable (ion) sites.
Structures == [geom : 0..MaxGeom, ion : 0..1]

\* A ComputedStructureEntry: entry_id and structure.
EntryOf(i, s) == [entry_id |-> i, structure |-> s]

Comparators == {"species", "geometry", "constant"}

\* _get_host: a copy with the species removed, or the structure itself
_get_host(structure, remove) ==
    IF remove THEN [structure EXCEPT !.ion = 0] ELSE structure

\* StructureMatcher(...).fit(ref_host, test_host): same species and the
\* geometries agree within the tolerance (not transitive).
Fit(ref_host, test_host, tol) ==
    /\ ref_host.ion = test_host.ion
    /\ Abs(ref_host.geom - test_host.geom) <= tol

\* comparator.get_structure_hash(host)
get_structure_hash(cmp, host) ==
    CASE cmp = "species"  -> host.ion
      [] cmp = "geometry" -> host.geom
      [] OTHER            -> 0

\* json.dumps(..., cls=MontyEncoder) / json.loads(..., cls=MontyDecoder)
EncodeStructure(s) == <<"Structure", s.geom, s.ion>>
DecodeStructure(j) == [geom |-> j[2], ion |-> j[3]]
EncodeEntry(e) == <<"ComputedStructureEntry", e.entry_id, EncodeStructure(e.structure)>>
DecodeEntry(j) == [entry_id |-> j[2], structure |-> DecodeStructure(j[3])]
DumpsEntries(es) == [i \in DOMAIN es |-> EncodeEntry(es[i])]
LoadsEntries(js) == [i \in DOMAIN js |-> DecodeEntry(js[i])]
DumpsStructures(hs) == [i \in DOMAIN hs |-> EncodeStructure(hs[i])]
LoadsStructures(js) == [i \in DOMAIN js |-> DecodeStructure(js[i])]

\* entries_host = [(entry, _get_host(entry.structure, species_to_remove)) ...]
EntriesHost(es, remove) ==
    [i \in DOMAIN es |-> <<es[i], _get_host(es[i].structure, remove)>>]

\* unmatched = list(zip(entries, hosts)) after decoding the two json arguments
ZipDecoded(task) ==
    LET es == LoadsEntries(task.entries_json)
        hs == LoadsStructures(task.hosts_json)
    IN  [i \in DOMAIN es |-> <<es[i], hs[i]>>]

\* matches: unmatched[0] followed by every later pair whose host fits ref_host
MatchesOf(um, tol) ==
    LET ref_host == um[1][2]
        Fits(x) == Fit(ref_host, x[2], tol)
    IN  <<um[1]>> \o SelectSeq(Tail(um), Fits)

\* unmatched = list(filter(lambda x: x not in matches, unmatched))
\* (variant: only the reference pair is dropped)
RemainingDropRefOnly(um, matches) == Tail(um)
Remaining(um, matches) ==
    LET NotIn(x) == x \notin Range(matches)
    IN  SelectSeq(um, NotIn)

\* json.dumps([m[0] for m in matches])
GroupJson(matches) == DumpsEntries([i \in DOMAIN matches |-> matches[i][1]])

\* the whole while loop of _perform_grouping: the groups it appends, in order
RECURSIVE PerformGrouping(_, _)
PerformGrouping(um, tol) ==
    IF Len(um) = 0 THEN <<>>
    ELSE LET matches == MatchesOf(um, tol)
         IN  <<GroupJson(matches)>> \o PerformGrouping(Remaining(um, matches), tol)

\* symm_entries: the pairs of entries_host split by the hash of the host,
\* buckets in order of first appearance of their hash
RECURSIVE HashOrder(_, _)
HashOrder(eh, cmp) ==
    IF eh = <<>> THEN <<>>
    ELSE LET h == get_structure_hash(cmp, eh[1][2])
             Other(x) == get_structure_hash(cmp, x[2]) # h
         IN  <<h>> \o HashOrder(SelectSeq(Tail(eh), Other), cmp)

\* (variant: each bucket keeps only the last pair that hashed to it)
SymmEntriesOverwrite(eh, cmp) ==
    LET hs == HashOrder(eh, cmp)
    IN  [k \in DOMAIN hs |->
            LET InBucket(x) == get_structure_hash(cmp, x[2]) = hs[k]
                b == SelectSeq(eh, InBucket)
            IN  <<b[Len(b)]>>]
SymmEntries(eh, cmp) ==
    LET hs == HashOrder(eh, cmp)
    IN  [k \in DOMAIN hs |->
            LET InBucket(x) == get_structure_hash(cmp, x[2]) = hs[k]
            IN  SelectSeq(eh, InBucket)]

\* the argument tuple built for one list of (entry, host) pairs
TaskOf(eh) ==
    [entries_json |-> DumpsEntries([i \in DOMAIN eh |-> eh[i][1]]),
     hosts_json   |-> DumpsStructures([i \in DOMAIN eh |-> eh[i][2]])]

GrpInit ==
    /\ \E n \in 0..MaxEntries :
         \E ss \in [1..n -> Structures] :
            entries = [i \in 1..n |-> EntryOf(i, ss[i])]
    /\ species_to_remove \in BOOLEAN
    /\ stol \in 0..1
    /\ comparator \in Comparators
    /\ ncpus \in 0..MaxCpus
    /\ pc = "start"
    /\ tasks = <<>>
    /\ wstate = <<>>
    /\ unmatched = <<>>
    /\ groups = <<>>
    /\ entry_groups = <<>>
    /\ GrpOthersIdle

\* (variant: the pairs are not split by hash, one task takes them all)
DispatchSingleTask ==
    /\ GrpOthers
    /\ pc = "start"
    /\ ncpus # 0
    /\ LET eh == EntriesHost(entries, species_to_remove)
           se == IF eh = <<>> THEN <<>> ELSE <<eh>>
       IN  /\ tasks' = [k \in DOMAIN se |-> TaskOf(se[k])]
           /\ wstate' = [k \in DOMAIN se |-> "pending"]
           /\ unmatched' = [k \in DOMAIN se |-> <<>>]
    /\ groups' = <<>>
    /\ pc' = "map"
    /\ UNCHANGED <<entries, species_to_remove, stol, comparator, ncpus, entry_groups>>

\* lines 108-126: parallel branch, up to the call of p.map
DispatchParallel ==
    /\ GrpOthers
    /\ pc = "start"
    /\ ncpus # 0
    /\ LET eh == EntriesHost(entries, species_to_remove)
           se == SymmEntries(eh, comparator)
       IN  /\ tasks' = [k \in DOMAIN se |-> TaskOf(se[k])]
           /\ wstate' = [k \in DOMAIN se |-> "pending"]
           /\ unmatched' = [k \in DOMAIN se |-> <<>>]
    /\ groups' = <<>>
    /\ pc' = "map"
    /\ UNCHANGED <<entries, species_to_remove, stol, comparator, ncpus, entry_groups>>

\* a pool worker takes a task: lines 43-48 of _perform_grouping
WorkerStart(t) ==
    /\ GrpOthers
    /\ pc = "map"
    /\ wstate[t] = "pending"
    /\ Cardinality({u \in DOMAIN wstate : wstate[u] = "running"}) < ncpus
    /\ wstate' = [wstate EXCEPT ![t] = "running"]
    /\ unmatched' = [unmatched EXCEPT ![t] = ZipDecoded(tasks[t])]
    /\ UNCHANGED <<entries, species_to_remove, stol, comparator, ncpus, pc,
                   tasks, groups, entry_groups>>

\* one iteration of the while loop (lines 49-72): one append to the shared list
WorkerStep(t) ==
    /\ GrpOthers
    /\ pc = "map"
    /\ wstate[t] = "running"
    /\ Len(unmatched[t]) > 0
    /\ LET matches == MatchesOf(unmatched[t], stol)
       IN  /\ groups' = Append(groups, GroupJson(matches))
           /\ unmatched' = [unmatched EXCEPT ![t] = Remaining(unmatched[t], matches)]
    /\ UNCHANGED <<entries, species_to_remove, stol, comparator, ncpus, pc,
                   tasks, wstate, entry_groups>>

\* the while condition fails: _perform_grouping returns
WorkerFinish(t) ==
    /\ GrpOthers
    /\ pc = "map"
    /\ wstate[t] = "running"
    /\ Len(unmatched[t]) = 0
    /\ wstate' = [wstate EXCEPT ![t] = "done"]
    /\ UNCHANGED <<entries, species_to_remove, stol, comparator, ncpus, pc,
                   tasks, unmatched, groups, entry_groups>>

\* p.map returns only when every task has returned
\* (variant: map_async, which does not wait)
MapReturnsEarly(ws) == TRUE
MapReturns(ws) == \A t \in DOMAIN ws : ws[t] = "done"

\* lines 134-139 after p.map has returned
CollectParallel ==
    /\ GrpOthers
    /\ pc = "map"
    /\ MapReturns(wstate)
    /\ entry_groups' = [g \in DOMAIN groups |-> LoadsEntries(groups[g])]
    /\ pc' = "done"
    /\ UNCHANGED <<entries, species_to_remove, stol, comparator, ncpus,
                   tasks, wstate, unmatched, groups>>

\* lines 108-109, 127-139: the serial branch
SerialCall ==
    /\ GrpOthers
    /\ pc = "start"
    /\ ncpus = 0
    /\ LET eh == EntriesHost(entries, species_to_remove)
           hosts == [i \in DOMAIN eh |-> eh[i][2]]
           task == [entries_json |-> DumpsEntries(entries),
                    hosts_json   |-> DumpsStructures(hosts)]
           gs == PerformGrouping(ZipDecoded(task), stol)
       IN  /\ tasks' = <<task>>
           /\ wstate' = <<"done">>
           /\ unmatched' = <<<<>>>>
           /\ groups' = gs
           /\ entry_groups' = [g \in DOMAIN gs |-> LoadsEntries(gs[g])]
    /\ pc' = "done"
    /\ UNCHANGED <<entries, species_to_remove, stol, comparator, ncpus>>

GrpNext ==
    \/ DispatchParallel
    \/ \E t \in DOMAIN wstate : WorkerStart(t)
    \/ \E t \in DOMAIN wstate : WorkerStep(t)
    \/ \E t \in DOMAIN wstate : WorkerFinish(t)
    \/ CollectParallel
    \/ SerialCall


\* ========================================================================
\* entry_tools.py : EntrySet
\* ========================================================================
Elements == {"Li", "Fe", "O"}

Comp(li, fe, o) == [Li |-> li, Fe |-> fe, O |-> o]

\* compositions of the entries: Li, Li2, O2, Li2O, Li4O2, FeO
Compositions == {Comp(1,0,0), Comp(2,0,0), Comp(0,0,2), Comp(2,0,1),
                 Comp(4,0,2), Comp(0,1,1)}

RECURSIVE Gcd(_, _)
Gcd(a, b) == IF b = 0 THEN a ELSE Gcd(b, a % b)

\* e.composition.reduced_formula: the composition divided by its gcd
reduced_formula(c) ==
    LET g == Gcd(Gcd(c.Li, c.Fe), c.O)
    IN  Comp(c.Li \div g, c.Fe \div g, c.O \div g)

\* position of a reduced formula in the (string) order used by sorted()
FormulaRank(f) == f.Li * 25 + f.Fe * 5 + f.O

group_func(e) == FormulaRank(reduced_formula(e.composition))

\* [sp.symbol for sp in e.composition.keys()]
SymbolsOf(c) == {el \in Elements : c[el] > 0}

EsUniverse == [entry_id : 1..NumIds, composition : Compositions,
               energy_per_atom : 0..MaxEnergy]

\* every order in which iterating a set can yield its members
OrdersOf(S) ==
    {o \in [1..Cardinality(S) -> S] : \A i, j \in DOMAIN o : i # j => o[i] # o[j]}

\* sorted(seq, key=group_func): stable insertion sort
RECURSIVE InsertByKey(_, _)
InsertByKey(sorted, e) ==
    IF sorted = <<>> THEN <<e>>
    ELSE IF group_func(sorted[Len(sorted)]) <= group_func(e)
         THEN Append(sorted, e)
         ELSE Append(InsertByKey(SubSeq(sorted, 1, Len(sorted) - 1), e),
                     sorted[Len(sorted)])

RECURSIVE SortedFrom(_, _)
SortedFrom(acc, seq) ==
    IF seq = <<>> THEN acc ELSE SortedFrom(InsertByKey(acc, Head(seq)), Tail(seq))

\* (variant: the sort is forgotten)
Unsorted(seq) == seq
SortedByFormula(seq) == SortedFrom(<<>>, seq)

\* itertools.groupby(entries, key=group_func): maximal runs of equal keys
RECURSIVE GroupBy(_, _)
GroupBy(runs, seq) ==
    IF seq = <<>> THEN runs
    ELSE LET e == Head(seq)
             n == Len(runs)
         IN  IF n > 0 /\ group_func(runs[n][1]) = group_func(e)
             THEN GroupBy([runs EXCEPT ![n] = Append(@, e)], Tail(seq))
             ELSE GroupBy(Append(runs, <<e>>), Tail(seq))

\* min(g, key=lambda e: e.energy_per_atom): the first member with the least key
RECURSIVE MinByEnergy(_, _)
MinByEnergy(best, g) ==
    IF g = <<>> THEN best
    ELSE IF Head(g).energy_per_atom < best.energy_per_atom
         THEN MinByEnergy(Head(g), Tail(g))
         ELSE MinByEnergy(best, Tail(g))

\* body of remove_non_ground_states for one iteration order of self.entries
GroundStates(order) ==
    LET runs == GroupBy(<<>>, SortedByFormula(order))
    IN  {MinByEnergy(runs[r][1], Tail(runs[r])) : r \in DOMAIN runs}

\* chemsys.issuperset(elements)
IsAnyOf(cs, elements) == elements \cap cs # {}
IsSuperset(cs, elements) == elements \subseteq cs

\* the loop of get_subset_in_chemsys over one iteration order of self.entries
RECURSIVE SubsetLoop(_, _, _)
SubsetLoop(acc, order, cs) ==
    IF order = <<>> THEN acc
    ELSE LET e == Head(order)
             elements == SymbolsOf(e.composition)
         IN  SubsetLoop(IF IsSuperset(cs, elements) THEN acc \cup {e} ELSE acc,
                        Tail(order), cs)

\* EntrySet(entries) with an empty collection
EsInit ==
    /\ es_entries = {} /\ es_op = "init" /\ es_prev = {} /\ chemsys = {} /\ subset = {}
    /\ EsOthersIdle

add(element) ==
    /\ EsOthers
    /\ Cardinality(es_entries \cup {element}) <= MaxSetSize
    /\ es_entries' = es_entries \cup {element}
    /\ es_op' = "add"
    /\ es_prev' = {} /\ chemsys' = {} /\ subset' = {}

discard(element) ==
    /\ EsOthers
    /\ es_entries' = es_entries \ {element}
    /\ es_op' = "discard"
    /\ es_prev' = {} /\ chemsys' = {} /\ subset' = {}

remove_non_ground_states ==
    /\ EsOthers
    /\ \E order \in OrdersOf(es_entries) : es_entries' = GroundStates(order)
    /\ es_op' = "remove_non_ground_states"
    /\ es_prev' = es_entries
    /\ chemsys' = {} /\ subset' = {}

get_subset_in_chemsys(cs) ==
    /\ EsOthers
    /\ \E order \in OrdersOf(es_entries) : subset' = SubsetLoop({}, order, cs)
    /\ chemsys' = cs
    /\ es_op' = "get_subset_in_chemsys"
    /\ es_prev' = es_entries
    /\ UNCHANGED es_entries

EsNext ==
    \/ \E element \in EsUniverse : add(element)
    \/ \E element \in es_entries : discard(element)
    \/ remove_non_ground_states
    \/ \E cs \in SUBSET Elements : get_subset_in_chemsys(cs)

\* ========================================================================
\* fragmenter.py : Fragmenter
\* ========================================================================
\* A MoleculeGraph: sp is the species of sites 1..n, ed the set of bonds, each
\* bond a set of two sites.
MolGraph(species, bonds) == [sp |-> species, ed |-> bonds]

Sites(f) == 1..Len(f.sp)

\* the molecules that are fragmented (each has at most one ring):
\* C-O, C-C-O, C-O-C, ring C-C-O, O-C-C-O, ring C-C-C with O on it,
\* C bonded to O, O and C, ring C-C-O-O
Molecules ==
    { MolGraph(<<"C","O">>, {{1,2}}),
      MolGraph(<<"C","C","O">>, {{1,2},{2,3}}),
      MolGraph(<<"C","O","C">>, {{1,2},{2,3}}),
      MolGraph(<<"C","C","O">>, {{1,2},{2,3},{1,3}}),
      MolGraph(<<"O","C","C","O">>, {{1,2},{2,3},{3,4}}),
      MolGraph(<<"C","C","C","O">>, {{1,2},{2,3},{1,3},{3,4}}),
      MolGraph(<<"C","O","O","C">>, {{1,2},{1,3},{1,4}}),
      MolGraph(<<"C","C","O","O">>, {{1,2},{2,3},{3,4},{1,4}}) }

\* fragments a previous Fragmenter may have found (pairwise not isomorphic)
PrevFragments ==
    { MolGraph(<<"C">>, {}),
      MolGraph(<<"O">>, {}),
      MolGraph(<<"O","C">>, {{1,2}}),
      MolGraph(<<"C","C">>, {{1,2}}),
      MolGraph(<<"O","C","C">>, {{1,2},{2,3}}) }

SpeciesCount(f, x) == Cardinality({i \in Sites(f) : f.sp[i] = x})

\* str(composition.alphabetical_formula) + " E" + str(len(graph.edges()))
FragKey(f) == <<SpeciesCount(f, "C"), SpeciesCount(f, "O"), Cardinality(f.ed)>>

\* sites connected to S by the bonds ed
RECURSIVE ReachFrom(_, _)
ReachFrom(ed, S) ==
    LET N == S \cup {n \in UNION ed : \E e \in ed : n \in e /\ e \cap S # {}}
    IN  IF N = S THEN S ELSE ReachFrom(ed, N)

\* the subgraph on the sites S, its sites renumbered in increasing order
Induced(f, S) ==
    LET rank(n) == Cardinality({m \in S : m <= n})
        site(i) == CHOOSE n \in S : rank(n) = i
    IN  MolGraph([i \in 1..Cardinality(S) |-> f.sp[site(i)]],
                 {{rank(n) : n \in e} : e \in {b \in f.ed : b \subseteq S}})

\* old_frag.graph.edges as a sequence, ordered by (lower site, higher site)
EdgeRank(e) == LET lo == CHOOSE n \in e : \A m \in e : n <= m
                   hi == CHOOSE n \in e : \A m \in e : m <= n
               IN  lo * 10 + hi

RECURSIVE EdgeSeqOf(_)
EdgeSeqOf(ed) ==
    IF ed = {} THEN <<>>
    ELSE LET e == CHOOSE x \in ed : \A y \in ed : EdgeRank(x) <= EdgeRank(y)
         IN  <<e>> \o EdgeSeqOf(ed \ {e})

\* open_ring(mol_graph, bond, opt_steps): the graph without the bond
open_ring(f, bond) == MolGraph(f.sp, f.ed \ {bond})

\* split_molecule_subgraphs(bond) did not raise MolGraphSplitError
Splits(f, bond) == ReachFrom(f.ed \ {bond}, {1}) # Sites(f)

\* the two subgraphs split_molecule_subgraphs(bond) returns
split_molecule_subgraphs(f, bond) ==
    LET g == open_ring(f, bond)
        c1 == ReachFrom(g.ed, {1})
    IN  <<Induced(g, c1), Induced(g, Sites(f) \ c1)>>

\* fragments obtained from old_frag by breaking one bond (lines 209-212, 237-239)
BreakBond(f, bond, rings) ==
    IF Splits(f, bond) THEN split_molecule_subgraphs(f, bond)
    ELSE IF rings THEN <<open_ring(f, bond)>>
    ELSE <<>>

\* isomorphic(graph1, graph2, use_igraph): a species-preserving bijection of
\* the sites that maps bonds onto bonds
Isomorphic(f, g) ==
    /\ Len(f.sp) = Len(g.sp)
    /\ Cardinality(f.ed) = Cardinality(g.ed)
    /\ \E p \in [Sites(f) -> Sites(g)] :
          /\ \A i, j \in Sites(f) : i # j => p[i] # p[j]
          /\ \A i \in Sites(f) : g.sp[p[i]] = f.sp[i]
          /\ {{p[n] : n \in e} : e \in f.ed} = g.ed

\* ---- dictionaries: sequences of [key, frags] in insertion order ----------
HasKey(d, k) == \E i \in DOMAIN d : d[i].key = k

Get(d, k) == d[CHOOSE i \in DOMAIN d : d[i].key = k].frags

\* d[k] = frags
SetKey(d, k, frags) ==
    IF HasKey(d, k)
    THEN [i \in DOMAIN d |-> IF d[i].key = k THEN [key |-> k, frags |-> frags] ELSE d[i]]
    ELSE Append(d, [key |-> k, frags |-> frags])

\* d[k].append(f)
AppendKey(d, k, f) ==
    [i \in DOMAIN d |-> IF d[i].key = k THEN [key |-> k, frags |-> Append(d[i].frags, f)]
                        ELSE d[i]]

\* all fragments of a dictionary, in iteration order
AllFrags(d) == Flatten([i \in DOMAIN d |-> d[i].frags])

IsoToAny(frags, f) == \E i \in DOMAIN frags : Isomorphic(frags[i], f)

\* lines 214-220 / 241-247: the fragment is isomorphic to one a previous
\* Fragmenter recorded under the same key (assume_previous_thoroughness is True)
(* variant: the previous fragments are never consulted *)
KnownBeforeNever(prev, f) == FALSE
KnownBefore(prev, f) ==
    /\ prev # <<>>
    /\ HasKey(prev, FragKey(f))
    /\ IsoToAny(Get(prev, FragKey(f)), f)

\* lines 226-230 / 253-257: found among this run's fragments of the same key
(* variant: only the first fragment under the key is compared *)
FoundInLevelFirstOnly(lvl, f) == Isomorphic(Get(lvl, FragKey(f))[1], f)
FoundInLevel(lvl, f) == IsoToAny(Get(lvl, FragKey(f)), f)

\* lines 213-236 (and 240-263): record one fragment; st.lvl is
\* self.level_unique_frag_dict and st.new is new_frag_dict
RecordFragment(st, f, prev) ==
    LET k == FragKey(f)
    IN  IF KnownBefore(prev, f) THEN st
        ELSE IF ~HasKey(st.lvl, k)
             THEN [lvl |-> SetKey(st.lvl, k, <<f>>), new |-> SetKey(st.new, k, <<f>>)]
        ELSE IF FoundInLevel(st.lvl, f) THEN st
        ELSE [lvl |-> AppendKey(st.lvl, k, f),
              new |-> IF HasKey(st.new, k) THEN AppendKey(st.new, k, f)
                      ELSE SetKey(st.new, k, <<f>>)]

RECURSIVE RecordAll(_, _, _)
RecordAll(st, fs, prev) ==
    IF fs = <<>> THEN st ELSE RecordAll(RecordFragment(st, Head(fs), prev), Tail(fs), prev)

\* every fragment the three nested loops of _fragment_one_level produce, in order
ProducedBy(f, rings) ==
    LET es == EdgeSeqOf(f.ed)
    IN  Flatten([i \in DOMAIN es |-> BreakBond(f, es[i], rings)])

ProducedFrom(old_frag_dict, rings) ==
    LET olds == AllFrags(old_frag_dict)
    IN  Flatten([i \in DOMAIN olds |-> ProducedBy(olds[i], rings)])

\* _fragment_one_level(old_frag_dict): the new level_unique_frag_dict (lvl)
\* and the returned new_frag_dict (new)
_fragment_one_level(old_frag_dict, lvl, prev, rings) ==
    RecordAll([lvl |-> lvl, new |-> <<>>], ProducedFrom(old_frag_dict, rings), prev)

\* ---- depth == 0 -----------------------------------------------------------
\* is the subgraph on the sites S connected
ConnectedOn(f, S) ==
    LET n0 == CHOOSE n \in S : \A m \in S : n <= m
    IN  ReachFrom({b \in f.ed : b \subseteq S}, {n0}) = S

\* the subsets of the sites in the order itertools.combinations yields them
\* for one size: here by the sum of 2^site, which orders them uniquely
RECURSIVE SubsetWeight(_)
SubsetWeight(S) ==
    IF S = {} THEN 0
    ELSE LET n == CHOOSE x \in S : TRUE IN 2^n + SubsetWeight(S \ {n})

RECURSIVE SetSeqOf(_)
SetSeqOf(SS) ==
    IF SS = {} THEN <<>>
    ELSE LET x == CHOOSE a \in SS : \A b \in SS :
                     \/ Cardinality(a) < Cardinality(b)
                     \/ Cardinality(a) = Cardinality(b) /\ SubsetWeight(a) <= SubsetWeight(b)
         IN  <<x>> \o SetSeqOf(SS \ {x})

RECURSIVE UniqueUpToIso(_, _)
UniqueUpToIso(acc, fs) ==
    IF fs = <<>> THEN acc
    ELSE UniqueUpToIso(IF IsoToAny(acc, Head(fs)) THEN acc ELSE Append(acc, Head(fs)),
                       Tail(fs))

\* mol_graph.build_unique_fragments(): the connected subgraphs on 1..n-1 sites,
\* one per isomorphism class
build_unique_fragments(f) ==
    LET cands == SetSeqOf({S \in SUBSET Sites(f) :
                              /\ S # {} /\ S # Sites(f) /\ ConnectedOn(f, S)})
    IN  UniqueUpToIso(<<>>, [i \in DOMAIN cands |-> Induced(f, cands[i])])

\* fragment.find_rings()[0]: the bonds of the (single) ring, or none
FirstRing(f) == EdgeSeqOf({b \in f.ed : ~Splits(f, b)})

\* lines 278-287: open every bond of the ring of one fragment
RECURSIVE OpenBonds(_, _, _)
OpenBonds(list, f, bonds) ==
    IF bonds = <<>> THEN list
    ELSE LET new_fragment == open_ring(f, Head(bonds))
         IN  OpenBonds(IF IsoToAny(list, new_fragment) THEN list
                       ELSE Append(list, new_fragment),
                       f, Tail(bonds))

\* lines 275-287: the for loop over the (growing) list, from position i
RECURSIVE OpenFrom(_, _)
OpenFrom(list, i) ==
    IF i > Len(list) THEN list
    ELSE OpenFrom(OpenBonds(list, list[i], FirstRing(list[i])), i + 1)

\* _open_all_rings: insert(0, mol_graph) ... pop(0)
_open_all_rings(mol, fragments) == Tail(OpenFrom(<<mol>> \o fragments, 1))

\* lines 82-98: keep the fragments no previous Fragmenter recorded
RECURSIVE KeepNew(_, _, _)
KeepNew(new, fs, prev) ==
    IF fs = <<>> THEN new
    ELSE LET f == Head(fs)
             k == FragKey(f)
             add_frag == IF ~HasKey(prev, k) THEN TRUE ELSE ~IsoToAny(Get(prev, k), f)
         IN  KeepNew(IF ~add_frag THEN new
                     ELSE IF ~HasKey(new, k) THEN SetKey(new, k, <<f>>)
                     ELSE AppendKey(new, k, f),
                     Tail(fs), prev)

\* ---- after the level loop -------------------------------------------------
\* lines 122-138
NewFromLevels(lvl, prev) ==
    IF prev = <<>> THEN lvl
    ELSE LET NotInPrev(i) == ~HasKey(prev, lvl[i].key)
             whole == {i \in DOMAIN lvl : NotInPrev(i)}
             \* keys absent from prev are copied whole, the others fragment by fragment
             step(new, i) ==
                 IF i \in whole THEN SetKey(new, lvl[i].key, lvl[i].frags)
                 ELSE KeepNew(new, lvl[i].frags, prev)
             F[i \in 0..Len(lvl)] == IF i = 0 THEN <<>> ELSE step(F[i - 1], i)
         IN  F[Len(lvl)]

\* lines 140-142 and 156-158
CountFrags(d) == Len(AllFrags(d))

\* lines 144-154
RECURSIVE AppendAll(_, _, _)
AppendAll(d, k, fs) ==
    IF fs = <<>> THEN d ELSE AppendAll(AppendKey(d, k, Head(fs)), k, Tail(fs))

MergeWithPrev(prev, new) ==
    IF prev = <<>> THEN new
    ELSE LET step(u, i) ==
                 IF HasKey(u, new[i].key) THEN AppendAll(u, new[i].key, new[i].frags)
                 ELSE SetKey(u, new[i].key, new[i].frags)
             F[i \in 0..Len(new)] == IF i = 0 THEN prev ELSE step(F[i - 1], i)
         IN  F[Len(new)]

\* a dictionary holding the fragments of S under their own keys
RECURSIVE DictOf(_, _)
DictOf(d, S) ==
    IF S = {} THEN d
    ELSE LET f == CHOOSE x \in S : TRUE
             k == FragKey(f)
         IN  DictOf(IF HasKey(d, k) THEN AppendKey(d, k, f) ELSE SetKey(d, k, <<f>>),
                    S \ {f})

\* Fragmenter(molecule, edges, depth, open_rings, prev_unique_frag_dict=...),
\* lines 50-70
FrInit ==
    /\ mol_graph \in Molecules
    /\ depth \in 0..MaxDepth
    /\ open_rings \in BOOLEAN
    /\ \E S \in SUBSET PrevFragments : prev_unique_frag_dict = DictOf(<<>>, S)
    /\ unique_fragments = <<>>
    /\ level_unique_frag_dict = <<>>
    /\ fragments_by_level = <<>>
    /\ new_unique_frag_dict = <<>>
    /\ unique_frag_dict = <<>>
    /\ new_unique_fragments = 0
    /\ total_unique_fragments = 0
    /\ level = 0
    /\ fr_pc = "branch"
    /\ FrOthersIdle

\* lines 72-98: depth == 0
NonIterative ==
    /\ FrOthers
    /\ fr_pc = "branch"
    /\ depth = 0
    /\ LET found == build_unique_fragments(mol_graph)
           all == IF open_rings THEN _open_all_rings(mol_graph, found) ELSE found
       IN  /\ unique_fragments' = all
           /\ new_unique_frag_dict' = KeepNew(<<>>, all, prev_unique_frag_dict)
    /\ fr_pc' = "merge"
    /\ UNCHANGED <<mol_graph, depth, open_rings, prev_unique_frag_dict,
                   level_unique_frag_dict, fragments_by_level, unique_frag_dict,
                   new_unique_fragments, total_unique_fragments, level>>

\* lines 105-121: one iteration of the level loop that fragments
FragmentLevel ==
    /\ FrOthers
    /\ fr_pc \in {"branch", "levels"}
    /\ depth # 0
    /\ level < depth
    /\ level > 0 => CountFrags(fragments_by_level[level]) # 0
    /\ LET old == IF level = 0
                  THEN <<[key |-> FragKey(mol_graph), frags |-> <<mol_graph>>]>>
                  ELSE fragments_by_level[level]
           r == _fragment_one_level(old, level_unique_frag_dict,
                                    prev_unique_frag_dict, open_rings)
       IN  /\ level_unique_frag_dict' = r.lvl
           /\ fragments_by_level' = Append(fragments_by_level, r.new)
    /\ level' = level + 1
    /\ fr_pc' = "levels"
    /\ UNCHANGED <<mol_graph, depth, open_rings, prev_unique_frag_dict,
                   unique_fragments, new_unique_frag_dict, unique_frag_dict,
                   new_unique_fragments, total_unique_fragments>>

\* the level loop ends (range exhausted, or break at line 118); lines 122-138
LevelsDone ==
    /\ FrOthers
    /\ fr_pc = "levels"
    /\ \/ level = depth
       \/ CountFrags(fragments_by_level[level]) = 0
    /\ new_unique_frag_dict' = NewFromLevels(level_unique_frag_dict, prev_unique_frag_dict)
    /\ fr_pc' = "merge"
    /\ UNCHANGED <<mol_graph, depth, open_rings, prev_unique_frag_dict,
                   unique_fragments, level_unique_frag_dict, fragments_by_level,
                   unique_frag_dict, new_unique_fragments, total_unique_fragments,
                   level>>

\* lines 140-158
Finalize ==
    /\ FrOthers
    /\ fr_pc = "merge"
    /\ new_unique_fragments' = CountFrags(new_unique_frag_dict)
    /\ unique_frag_dict' = MergeWithPrev(prev_unique_frag_dict, new_unique_frag_dict)
    /\ total_unique_fragments' =
          CountFrags(MergeWithPrev(prev_unique_frag_dict, new_unique_frag_dict))
    /\ fr_pc' = "done"
    /\ UNCHANGED <<mol_graph, depth, open_rings, prev_unique_frag_dict,
                   unique_fragments, level_unique_frag_dict, fragments_by_level,
                   new_unique_frag_dict, level>>

FrNext ==
    \/ NonIterative
    \/ FragmentLevel
    \/ LevelsDone
    \/ Finalize

\* ========================================================================
\* old_thermodynamics.py : DefectPhaseDiagram
\* ========================================================================
\* Energies and fermi levels are integers: one unit is one step of the fermi
\* level grid, which is coarsened from the nb_steps = 10000 of line 56.
DefectNames == {"Vac_O", "Sub_N"}

DefectEntries == [name : DefectNames, charge : (-MaxCharge)..MaxCharge,
                  energy : 0..MaxDefectEnergy]

\* miny = 10000
MinyStart == 10000

\* the chemical potential of every element (no_chempots uses 0)
ChemPots == {0, 1}

\* dfct.formation_energy(chemical_potentials, fermi_level): linear in the
\* fermi level with the charge as slope; each defect exchanges one atom
formation_energy(dfct, mu, fermi_level) ==
    dfct.energy + dfct.charge * fermi_level - mu

\* x = np.arange(xlim[0], xlim[1], step) with xlim = (-0.1, band_gap + .1):
\* from one step below the VBM up to, not including, one step above the gap
XGrid(gap) == [i \in 1..(gap + 2) |-> i - 2]

\* _get_all_defect_types: the names in order of first appearance
RECURSIVE TypesFrom(_, _)
TypesFrom(to_return, des) ==
    IF des = <<>> THEN to_return
    ELSE TypesFrom(IF Head(des).name \in Range(to_return) THEN to_return
                   ELSE Append(to_return, Head(des).name),
                   Tail(des))

_get_all_defect_types(des) == TypesFrom(<<>>, des)

\* lines 65-71: the charge of the lowest formation energy among the entries
\* named t; m is [miny, cur_min_q].  A charge variable is <<>> for None and
\* <<q>> for the charge q.
RECURSIVE MinOver(_, _, _, _)
MinOver(m, des, t, x_step) ==
    IF des = <<>> THEN m
    ELSE LET dfct == Head(des)
             val == formation_energy(dfct, 0, x_step)
         IN  MinOver(IF dfct.name = t /\ val < m.miny
                     THEN [miny |-> val, cur_min_q |-> <<dfct.charge>>]
                     ELSE m,
                     Tail(des), t, x_step)

\* lines 64-78: the loop over the fermi levels
RECURSIVE ScanFrom(_, _, _, _)
ScanFrom(acc, des, t, xs) ==
    IF xs = <<>> THEN acc
    ELSE LET x_step == Head(xs)
             cur == MinOver([miny |-> MinyStart, cur_min_q |-> acc.cur_min_q],
                            des, t, x_step).cur_min_q
             tl == IF acc.prev_min_q # <<>> /\ cur # acc.prev_min_q
                   THEN Append(acc.trans_level, <<x_step, acc.prev_min_q[1], cur[1]>>)
                   ELSE acc.trans_level
             ct == IF acc.prev_min_q # <<>> /\ cur[1] \notin Range(acc.chg_type)
                   THEN Append(acc.chg_type, cur[1])
                   ELSE acc.chg_type
         IN  ScanFrom([trans_level |-> tl, chg_type |-> ct,
                       prev_min_q |-> cur, cur_min_q |-> cur],
                      des, t, Tail(xs))

\* lines 61-78 for one defect type t
ScanType(des, t, gap) ==
    ScanFrom([trans_level |-> <<>>, chg_type |-> <<>>,
              prev_min_q |-> <<>>, cur_min_q |-> <<>>],
             des, t, XGrid(gap))

\* d[k] = v on a dictionary (a function from its keys)
Put(d, k, v) == [x \in DOMAIN d \cup {k} |-> IF x = k THEN v ELSE d[x]]

\* lines 80-82: the key the results of type t are stored under is dfct.name,
\* dfct being the variable left over from the loop of line 66
StoreKey(des, t) == des[Len(des)].name

\* [e.charge for e in self.dentries if e.name == t]
ChargesOf(des, t) ==
    LET Named(e) == e.name = t
        sel == SelectSeq(des, Named)
    IN  [i \in DOMAIN sel |-> sel[i].charge]

\* _set_dpd_nochempots: the three dictionaries after the loop over the types
RECURSIVE SetTypes(_, _, _, _)
SetTypes(d, types, des, gap) ==
    IF types = <<>> THEN d
    ELSE LET t == Head(types)
             r == ScanType(des, t, gap)
             k == StoreKey(des, t)
         IN  SetTypes([stable |-> Put(d.stable, k, r.chg_type),
                       finished |-> Put(d.finished, k, ChargesOf(des, t)),
                       levels |-> Put(d.levels, k, r.trans_level)],
                      Tail(types), des, gap)

_set_dpd_nochempots(des, gap) ==
    SetTypes([stable |-> <<>>, finished |-> <<>>, levels |-> <<>>],
             _get_all_defect_types(des), des, gap)

\* DefectPhaseDiagram(dentries, vbm, band_gap), lines 42-46
DpdInit ==
    /\ \E n \in 0..MaxDefects : dentries \in [1..n -> DefectEntries]
    /\ band_gap \in 1..MaxGap
    /\ LET d == _set_dpd_nochempots(dentries, band_gap)
       IN  /\ stable_charges = d.stable
           /\ finished_charges = d.finished
           /\ transition_levels = d.levels
    /\ dpd_op = "__init__"
    /\ dpd_arg = <<>>
    /\ dpd_err = "none"
    /\ dpd_result = <<>>
    /\ DpdOthersIdle

\* lines 84-92: the append, then the call of self._set_pd_nochempots, a
\* method the class does not have
add_defect_entry(defect) ==
    /\ DpdOthers
    /\ Len(dentries) < MaxDefects
    /\ dentries' = Append(dentries, defect)
    /\ dpd_op' = "add_defect_entry"
    /\ dpd_arg' = defect
    /\ dpd_err' = "AttributeError"
    /\ dpd_result' = <<>>
    /\ UNCHANGED <<band_gap, stable_charges, finished_charges, transition_levels>>

\* lines 127-143: list_formation_energies is a property, so reading the
\* attribute calls the function with self alone and mu_elts is missing
list_formation_energies(mu_elts, ef) ==
    /\ DpdOthers
    /\ dpd_op' = "list_formation_energies"
    /\ dpd_arg' = <<mu_elts, ef>>
    /\ dpd_err' = "TypeError"
    /\ dpd_result' = <<>>
    /\ UNCHANGED <<dentries, band_gap, stable_charges, finished_charges,
                   transition_levels>>

\* lines 145-162: a property as well
list_defect_concentrations(mu_elts, temp, ef) ==
    /\ DpdOthers
    /\ dpd_op' = "list_defect_concentrations"
    /\ dpd_arg' = <<mu_elts, temp, ef>>
    /\ dpd_err' = "TypeError"
    /\ dpd_result' = <<>>
    /\ UNCHANGED <<dentries, band_gap, stable_charges, finished_charges,
                   transition_levels>>

\* min(stablechgs) and max(stablechgs)
MinOf(seq) == CHOOSE m \in Range(seq) : \A n \in Range(seq) : m <= n
MaxOf(seq) == CHOOSE m \in Range(seq) : \A n \in Range(seq) : n <= m

\* lines 189-202: no transition level close to a band edge rules the charge
\* out; a level is close when within one grid step (0.1 eV) of the edge
RecFlag(followup_chg, levels, gap) ==
    \A n \in DOMAIN levels :
        LET tl == levels[n]
        IN  /\ ~(tl[1] <= 1 /\ followup_chg > tl[2])
            /\ ~(tl[1] >= gap - 1 /\ followup_chg < tl[3])

\* lines 185-204: the loop over range(min(stablechgs)-1, max(stablechgs)+2)
RECURSIVE RecommendFrom(_, _, _, _, _, _)
RecommendFrom(reccomendset, chg, last, allchgs, levels, gap) ==
    IF chg > last THEN reccomendset
    ELSE RecommendFrom(IF chg \in Range(allchgs) THEN reccomendset
                       ELSE IF RecFlag(chg, levels, gap) THEN Append(reccomendset, chg)
                       ELSE reccomendset,
                       chg + 1, last, allchgs, levels, gap)

\* lines 182-207 for one defect type t
RecommendFor(t, stable, finished, levels, gap) ==
    RecommendFrom(<<>>, MinOf(stable[t]) - 1, MaxOf(stable[t]) + 1,
                  finished[t], levels[t], gap)

\* lines 174-209: self.finished_charges[t] raises KeyError for a type that is
\* not a key
suggest_charges ==
    /\ DpdOthers
    /\ LET types == _get_all_defect_types(dentries)
       IN  IF \A n \in DOMAIN types : types[n] \in DOMAIN finished_charges
           THEN /\ dpd_err' = "none"
                /\ dpd_result' =
                      [t \in Range(types) |->
                          RecommendFor(t, stable_charges, finished_charges,
                                       transition_levels, band_gap)]
           ELSE /\ dpd_err' = "KeyError"
                /\ dpd_result' = <<>>
    /\ dpd_op' = "suggest_charges"
    /\ dpd_arg' = <<>>
    /\ UNCHANGED <<dentries, band_gap, stable_charges, finished_charges,
                   transition_levels>>

DpdNext ==
    \/ suggest_charges
    \/ \E defect \in DefectEntries : add_defect_entry(defect)
    \/ \E mu_elts \in ChemPots, ef \in {0, band_gap} :
          list_formation_energies(mu_elts, ef)
    \/ \E mu_elts \in ChemPots, ef \in {0, band_gap} :
          list_defect_concentrations(mu_elts, 300, ef)

\* ========================================================================
\* pymatgen/analysis/defects/utils.py: genrecip and
\* generate_reciprocal_vectors_squared
\*
\* Lattice vectors have integer components.  A reciprocal vector is kept in
\* units of 2 pi / |vol|, so b1, b2, b3 are the integer cross products (with
\* the sign of vol) and the cutoff gcut is given by its square in the same
\* units, rec_encut = (gcut * vol / 2 pi)^2.  Energies and squared norms
\* grow together, so en <= encut is Norm2(vec) <= rec_encut.
\* ========================================================================
MaxComp == 2         \* largest absolute component of a lattice vector
MaxCut2 == 3         \* largest squared cutoff

Cross(u, v) ==
    <<u[2] * v[3] - u[3] * v[2], u[3] * v[1] - u[1] * v[3], u[1] * v[2] - u[2] * v[1]>>

Dot(u, v) == u[1] * v[1] + u[2] * v[2] + u[3] * v[3]

Norm2(u) == Dot(u, u)

Scale(c, u) == <<c * u[1], c * u[2], c * u[3]>>

Sign(x) == IF x < 0 THEN -1 ELSE 1

\* the lattices drawn as inputs: a1 and a2 in the xy plane, a3 along z,
\* with a non-zero cell volume
Lattices ==
    {<<a1, a2, a3>> \in
        {<<x, y, 0>> : x, y \in -MaxComp..MaxComp} \X
        {<<x, y, 0>> : x, y \in -MaxComp..MaxComp} \X
        {<<0, 0, z>> : z \in 1..MaxComp} :
        Dot(a1, Cross(a2, a3)) # 0}

\* b1, b2, b3 of the code in units of 2 pi / |vol|
RecipBasis(lat) ==
    LET vol == Dot(lat[1], Cross(lat[2], lat[3]))
    IN  <<Scale(Sign(vol), Cross(lat[2], lat[3])),
          Scale(Sign(vol), Cross(lat[3], lat[1])),
          Scale(Sign(vol), Cross(lat[1], lat[2]))>>

\* i*b1 + j*b2 + k*b3
LatticeVec(b, i, j, k) ==
    <<i * b[1][1] + j * b[2][1] + k * b[3][1],
      i * b[1][2] + j * b[2][2] + k * b[3][2],
      i * b[1][3] + j * b[2][3] + k * b[3][3]>>

\* imax = int(math.ceil(gcut / min(map(norm, [b1, b2, b3])))): the least n
\* with n * min norm >= gcut
Imax(b, cut2) ==
    LET m == CHOOSE x \in {Norm2(b[1]), Norm2(b[2]), Norm2(b[3])} :
                 \A y \in {Norm2(b[1]), Norm2(b[2]), Norm2(b[3])} : x <= y
    IN  CHOOSE n \in 0..cut2 :
            /\ n * n * m >= cut2
            /\ \A l \in 0..(n - 1) : l * l * m < cut2

\* the index triples in the order of the three nested range(-imax, imax + 1)
IndexTriples(imax) ==
    LET w == 2 * imax + 1
    IN  [n \in 1..(w * w * w) |->
            <<((n - 1) \div (w * w)) - imax,
              (((n - 1) \div w) % w) - imax,
              ((n - 1) % w) - imax>>]

\* the vectors of the loop that pass "en <= encut and en != 0"
YieldedVecs(lat, cut2) ==
    LET b == RecipBasis(lat)
        idx == IndexTriples(Imax(b, cut2))
        vecs == [n \in DOMAIN idx |-> LatticeVec(b, idx[n][1], idx[n][2], idx[n][3])]
        Keep(v) == Norm2(v) <= cut2 /\ Norm2(v) # 0
    IN  SelectSeq(vecs, Keep)

RecInit ==
    /\ RecOthersIdle
    /\ rec_lattice \in Lattices
    /\ rec_encut \in 0..MaxCut2
    /\ rec_op = "init"
    /\ rec_result = <<>>

genrecip ==
    /\ RecOthers
    /\ rec_op # "idle"
    /\ rec_op' = "genrecip"
    /\ rec_result' = YieldedVecs(rec_lattice, rec_encut)
    /\ UNCHANGED <<rec_lattice, rec_encut>>

generate_reciprocal_vectors_squared ==
    /\ RecOthers
    /\ rec_op # "idle"
    /\ rec_op' = "generate_reciprocal_vectors_squared"
    /\ rec_result' = LET ys == YieldedVecs(rec_lattice, rec_encut)
                     IN  [n \in DOMAIN ys |-> Norm2(ys[n])]
    /\ UNCHANGED <<rec_lattice, rec_encut>>

RecNext ==
    \/ genrecip
    \/ generate_reciprocal_vectors_squared

\* ========================================================================
\* pymatgen/phonon/ir_spectra.py: IRDielectricTensorGenerator.get_ir_spectra
\*
\* Frequencies, broadenings and energies are integers.  The samples of
\* np.linspace are kept as numerators over the common denominator divs - 1.
\* The complex tensor t is a function of w, g and the oscillator strengths
\* and raises nothing; the model keeps w and g.
\* ========================================================================
MaxFreqs == 4        \* most phonon frequencies of a generator
MaxFreqVal == 1      \* largest phonon frequency
MaxBroad == 1        \* largest broadening
MaxDivs == 3         \* largest divs
MaxE == 2            \* largest emin / emax given by the caller
AcousticModes == 3   \* the loop starts at mode 3
BroadFactor == 20    \* emax = max_phfreq + max(broad) * 20

\* a value of numpy.ndarray phfreqs_gamma: at least the three acoustic modes
PhFreqs == UNION {[1..n -> 0..MaxFreqVal] : n \in AcousticModes..MaxFreqs}

\* the values of the argument broad: a float, a list of floats or an int
\* (the number of a float or an int is val[1])
BroadArgs ==
    {[kind |-> "float", val |-> <<x>>] : x \in 0..MaxBroad} \cup
    {[kind |-> "int", val |-> <<x>>] : x \in 0..MaxBroad} \cup
    {[kind |-> "list", val |-> l] :
        l \in UNION {[1..n -> 0..MaxBroad] : n \in (AcousticModes - 1)..MaxFreqs}}

max_phfreq(freqs) == MaxOf(freqs)

nphfreqs(freqs) == Len(freqs)

\* if isinstance(broad, float): broad = [broad] * self.nphfreqs
ExpandBroad(broad, freqs) ==
    IF broad.kind = "float"
    THEN [kind |-> "list", val |-> [i \in 1..nphfreqs(freqs) |-> broad.val[1]]]
    ELSE broad

\* emax = self.max_phfreq + max(broad) * 20
DefaultEmaxNoBroad(freqs, blist) == max_phfreq(freqs)

DefaultEmax(freqs, blist) == max_phfreq(freqs) + MaxOf(blist) * BroadFactor

\* np.linspace(emin, emax, divs) for divs >= 0
Linspace(lo, hi, n) ==
    IF n <= 1
    THEN [num |-> [k \in 1..n |-> lo], den |-> 1]
    ELSE [num |-> [k \in 1..n |-> lo * (n - 1) + (k - 1) * (hi - lo)], den |-> n - 1]

\* g = broad[i] * self.phfreqs_gamma[i] for i in range(3, len(phfreqs_gamma))
Dampings(blist, freqs) ==
    [k \in 1..(Len(freqs) - AcousticModes) |->
        blist[k + AcousticModes] * freqs[k + AcousticModes]]

IrInit ==
    /\ IrOthersIdle
    /\ phfreqs_gamma \in PhFreqs
    /\ ir_op = "init"
    /\ ir_args = <<>>
    /\ ir_err = "none"
    /\ ir_broad = <<>>
    /\ ir_g = <<>>
    /\ ir_frequencies = <<>>

IrRaise(args, e) ==
    /\ ir_op' = "get_ir_spectra"
    /\ ir_args' = args
    /\ ir_err' = e
    /\ ir_broad' = <<>>
    /\ ir_g' = <<>>
    /\ ir_frequencies' = <<>>
    /\ UNCHANGED phfreqs_gamma

\* The call reads self and changes nothing of it, so a second call on the same
\* generator reaches no outcome the first one cannot: one call is modelled.
get_ir_spectra ==
    /\ IrOthers
    /\ ir_op = "init"
    /\ \E broad \in BroadArgs, emin \in 0..1, emax \in {<<>>} \cup {<<e>> : e \in 1..MaxE},
          divs \in -1..MaxDivs :
        LET args == [broad |-> broad, emin |-> emin, emax |-> emax, divs |-> divs]
            b == ExpandBroad(broad, phfreqs_gamma)
            hi == IF emax = <<>> THEN DefaultEmax(phfreqs_gamma, b.val) ELSE emax[1]
        IN  IF b.kind = "list" /\ Len(b.val) # nphfreqs(phfreqs_gamma)
            THEN IrRaise(args, "ValueError")
            ELSE IF emax = <<>> /\ b.kind = "int"
            THEN IrRaise(args, "TypeError")
            ELSE IF divs < 0
            THEN IrRaise(args, "ValueError")
            ELSE IF b.kind = "int" /\ Len(phfreqs_gamma) > AcousticModes
            THEN IrRaise(args, "TypeError")
            ELSE /\ ir_op' = "get_ir_spectra"
                 /\ ir_args' = args
                 /\ ir_err' = "none"
                 /\ ir_broad' = b
                 /\ ir_g' = IF b.kind = "int" THEN <<>> ELSE Dampings(b.val, phfreqs_gamma)
                 /\ ir_frequencies' = Linspace(emin, hi, divs)
                 /\ UNCHANGED phfreqs_gamma

IrNext ==
    \/ get_ir_spectra

\* ========================================================================
\* pymatgen/analysis/defects/utils.py: QModel.__init__
\*
\* Numbers are integers; an argument is <<x>> for the number x and <<>> for
\* None.  An argument the caller leaves out takes its default.
\* ========================================================================
MaxBeta == 3         \* largest beta passed
MaxExpnorm == 2      \* largest expnorm passed
MaxGamma == 3        \* largest gamma passed
DefaultBeta == 1     \* beta=1.0
DefaultExpnorm == 0  \* expnorm=0.0
DefaultGamma == 1    \* gamma=1.0

\* bool(x) of Python for a number or None
Truthy(x) == x # <<>> /\ x[1] # 0

\* the calls drawn as inputs: which arguments are passed, and their values
QModelCalls ==
    {c \in [given : SUBSET {"beta", "expnorm", "gamma"},
            beta : {<<b>> : b \in 0..MaxBeta},
            expnorm : {<<x>> : x \in 0..MaxExpnorm},
            gamma : {<<>>} \cup {<<g>> : g \in 0..MaxGamma}] :
        /\ "beta" \notin c.given => c.beta = <<DefaultBeta>>
        /\ "expnorm" \notin c.given => c.expnorm = <<DefaultExpnorm>>
        /\ "gamma" \notin c.given => c.gamma = <<DefaultGamma>>}

QmInit ==
    /\ QmOthersIdle
    /\ qm_op = "init"
    /\ qm_args = <<>>
    /\ qm_given = {}
    /\ qm_err = "none"
    /\ qm_obj = <<>>

\* gamma * gamma with gamma None raises TypeError before the check of line 51
QModel_init ==
    /\ QmOthers
    /\ qm_op = "init"
    /\ \E c \in QModelCalls :
        /\ qm_op' = "QModel"
        /\ qm_args' = [beta |-> c.beta, expnorm |-> c.expnorm, gamma |-> c.gamma]
        /\ qm_given' = c.given
        /\ IF c.gamma = <<>>
           THEN qm_err' = "TypeError" /\ qm_obj' = <<>>
           ELSE IF Truthy(c.expnorm) /\ ~Truthy(c.gamma)
           THEN qm_err' = "ValueError" /\ qm_obj' = <<>>
           ELSE /\ qm_err' = "none"
                /\ qm_obj' = [beta |-> c.beta[1], expnorm |-> c.expnorm[1],
                              gamma |-> c.gamma[1],
                              beta2 |-> c.beta[1] * c.beta[1],
                              gamma2 |-> c.gamma[1] * c.gamma[1]]

QmNext ==
    \/ QModel_init

\* ========================================================================
\* pymatgen/analysis/pourbaix_diagram.py: PourbaixEntry, MultiEntry and
\* PourbaixDiagram, as the specification and
\* pymatgen/analysis/tests/test_pourbaix_diagram.py describe them.
\*
\* A diagram is over the two elements Ag and Te in equal parts.  Energies are
\* integers, the Nernst prefactor is one unit per pH step and the
\* concentration term is left out.  Every processed entry of such a diagram
\* holds one Ag and one Te, so normalising the energies changes no
\* comparison and is left out.
\* ========================================================================
MaxPbx == 3          \* most entries given to a PourbaixDiagram
MaxMulti == 2        \* most entries given to a MultiEntry
MaxPbxEnergy == 1    \* largest energy of an entry
MaxPH == 1           \* the pH values 0..MaxPH
MaxV == 1            \* the potentials 0..MaxV

\* a PourbaixEntry: the composition, charge and energy of its entry
PourbaixEntries ==
    {e \in [Ag : 0..1, Te : 0..1, O : 0..1, charge : {-1, 0}, energy : 0..MaxPbxEnergy] :
        e.Ag + e.Te > 0}

composition(e) == [Ag |-> e.Ag, Te |-> e.Te, O |-> e.O]

\* npH = H - 2 * O, nPhi = npH - charge
npH(e) == 0 - 2 * e.O

nPhi(e) == npH(e) - e.charge

RECURSIVE SeqSum(_)
SeqSum(s) == IF s = <<>> THEN 0 ELSE Head(s) + SeqSum(Tail(s))

\* MultiEntry(entry_list): weights default to 1.0 each
MultiEntry(entry_list) ==
    [entry_list |-> entry_list, weights |-> [i \in DOMAIN entry_list |-> 1]]

\* MultiEntry.__getattr__: the weighted sum of the attribute over entry_list
MultiSumFirstOnly(m, vals) == m.weights[1] * vals[1]

MultiSum(m, vals) == SeqSum([i \in DOMAIN m.entry_list |-> m.weights[i] * vals[i]])

MultiEnergy(m) == MultiSum(m, [i \in DOMAIN m.entry_list |-> m.entry_list[i].energy])

MultinPhi(m) == MultiSum(m, [i \in DOMAIN m.entry_list |-> nPhi(m.entry_list[i])])

MultinpH(m) == MultiSum(m, [i \in DOMAIN m.entry_list |-> npH(m.entry_list[i])])

MultiComposition(m) ==
    [Ag |-> MultiSum(m, [i \in DOMAIN m.entry_list |-> m.entry_list[i].Ag]),
     Te |-> MultiSum(m, [i \in DOMAIN m.entry_list |-> m.entry_list[i].Te]),
     O |-> MultiSum(m, [i \in DOMAIN m.entry_list |-> m.entry_list[i].O])]

\* PourbaixEntry.as_dict: the entry type, and the entry with its composition
\* as the list of the elements it holds and their amounts
ElementOrder == <<"Ag", "Te", "O">>

PbxAsDict(e) ==
    LET amounts == [i \in 1..3 |-> <<ElementOrder[i], composition(e)[ElementOrder[i]]>>]
        Held(p) == p[2] > 0
    IN  [entry_type |-> IF e.charge = 0 THEN "Solid" ELSE "Ion",
         entry |-> [composition |-> SelectSeq(amounts, Held),
                    charge |-> e.charge, energy |-> e.energy]]

AmountIn(comp, el) ==
    IF \E i \in DOMAIN comp : comp[i][1] = el
    THEN comp[CHOOSE i \in DOMAIN comp : comp[i][1] = el][2]
    ELSE 0

PbxFromDict(d) ==
    [Ag |-> AmountIn(d.entry.composition, "Ag"),
     Te |-> AmountIn(d.entry.composition, "Te"),
     O |-> AmountIn(d.entry.composition, "O"),
     charge |-> IF d.entry_type = "Ion" THEN d.entry.charge ELSE 0,
     energy |-> d.entry.energy]

MultiAsDict(m) ==
    [entry_list |-> [i \in DOMAIN m.entry_list |-> PbxAsDict(m.entry_list[i])],
     weights |-> m.weights]

MultiFromDict(d) ==
    [entry_list |-> [i \in DOMAIN d.entry_list |-> PbxFromDict(d.entry_list[i])],
     weights |-> d.weights]

\* energy_at_conditions of a processed entry
EnergyAt(m, pH, V) == MultiEnergy(m) + MultinpH(m) * pH + MultinPhi(m) * V

\* the processed entries: every combination of at most two entries that
\* holds Ag and Te in equal parts
Processed(es) ==
    {MultiEntry(<<e>>) : e \in {x \in es : x.Ag = 1 /\ x.Te = 1}} \cup
    {MultiEntry(<<a, b>>) : a \in {x \in es : x.Ag = 1 /\ x.Te = 0},
                            b \in {x \in es : x.Ag = 0 /\ x.Te = 1}}

PbxGrid == (0..MaxPH) \X (0..MaxV)

\* the entries of lowest energy at (pH, V) among ms
LowestAt(ms, pH, V) ==
    {m \in ms : \A n \in ms : EnergyAt(m, pH, V) <= EnergyAt(n, pH, V)}

\* stable_entries: the processed entries that own a domain of the diagram
StableAtOriginOnly(ms) == LowestAt(ms, 0, 0)

StableEntries(ms) == UNION {LowestAt(ms, g[1], g[2]) : g \in PbxGrid}

\* get_hull_energy: the lowest energy of the stable entries
HullEnergy(stable, pH, V) ==
    LET m == CHOOSE x \in LowestAt(stable, pH, V) : TRUE
    IN  EnergyAt(m, pH, V)

IsMulti(x) == "entry_list" \in DOMAIN x

\* the representatives of an entry: itself when it is a MultiEntry, else the
\* multi-entries that include it
Representatives(x, es) ==
    IF IsMulti(x) THEN {x}
    ELSE {m \in Processed(es \cup {x}) : x \in Range(m.entry_list)}

PbxInit ==
    /\ PbxOthersIdle
    /\ pbx_op = "init"
    /\ pbx_multi = <<>>
    /\ pbx_multi_new = <<>>
    /\ pbx_all = {}
    /\ pbx_processed = {}
    /\ pbx_stable = {}
    /\ pbx_found = <<>>
    /\ pbx_arg = <<>>
    /\ pbx_err = "none"
    /\ pbx_result = 0

MultiEntry_init ==
    /\ PbxOthers
    /\ pbx_op = "init"
    /\ \E n \in 1..MaxMulti : \E l \in [1..n -> PourbaixEntries] :
           pbx_multi' = MultiEntry(l)
    /\ pbx_op' = "MultiEntry"
    /\ UNCHANGED <<pbx_multi_new, pbx_all, pbx_processed, pbx_stable, pbx_found,
                   pbx_arg, pbx_err, pbx_result>>

MultiEntry_from_dict ==
    /\ PbxOthers
    /\ pbx_op = "MultiEntry"
    /\ pbx_multi_new' = MultiFromDict(MultiAsDict(pbx_multi))
    /\ pbx_op' = "from_dict"
    /\ UNCHANGED <<pbx_multi, pbx_all, pbx_processed, pbx_stable, pbx_found,
                   pbx_arg, pbx_err, pbx_result>>

PourbaixDiagram_init ==
    /\ PbxOthers
    /\ pbx_op = "init"
    /\ \E es \in {Range(l) : l \in [1..MaxPbx -> PourbaixEntries]} :
        /\ Processed(es) # {}
        /\ pbx_all' = es
        /\ pbx_processed' = Processed(es)
        /\ pbx_stable' = StableEntries(Processed(es))
    /\ pbx_op' = "PourbaixDiagram"
    /\ UNCHANGED <<pbx_multi, pbx_multi_new, pbx_found, pbx_arg, pbx_err, pbx_result>>

find_stable_entry ==
    /\ PbxOthers
    /\ pbx_op = "PourbaixDiagram"
    /\ \E g \in PbxGrid : \E m \in LowestAt(pbx_stable, g[1], g[2]) :
           pbx_found' = <<m, g[1], g[2]>>
    /\ pbx_op' = "find_stable_entry"
    /\ UNCHANGED <<pbx_multi, pbx_multi_new, pbx_all, pbx_processed, pbx_stable,
                   pbx_arg, pbx_err, pbx_result>>

\* find_stable_entry changes nothing of the diagram, so the calls that follow
\* it are modelled at the (pH, V) it was asked for only: every other call is
\* the same as on the diagram as constructed.
get_decomposition_energy ==
    /\ PbxOthers
    /\ pbx_op \in {"PourbaixDiagram", "find_stable_entry"}
    /\ \E x \in pbx_all \cup pbx_processed : \E g \in PbxGrid :
        LET reps == Representatives(x, pbx_all)
        IN  /\ pbx_op = "find_stable_entry" => g = <<pbx_found[2], pbx_found[3]>>
            /\ pbx_arg' = <<x, g[1], g[2]>>
            /\ IF reps = {}
               THEN pbx_err' = "ValueError" /\ pbx_result' = 0
               ELSE /\ pbx_err' = "none"
                    /\ pbx_result' = HullEnergy(reps, g[1], g[2])
                                        - HullEnergy(pbx_stable, g[1], g[2])
    /\ pbx_op' = "get_decomposition_energy"
    /\ UNCHANGED <<pbx_multi, pbx_multi_new, pbx_all, pbx_processed, pbx_stable,
                   pbx_found>>

PbxNext ==
    \/ MultiEntry_init
    \/ MultiEntry_from_dict
    \/ PourbaixDiagram_init
    \/ find_stable_entry
    \/ get_decomposition_energy

\* ========================================================================
\* pymatgen/analysis/chemenv/connectivity/environment_nodes.py:
\* EnvironmentNode, as the specification and
\* pymatgen/analysis/chemenv/connectivity/tests/test_environment_nodes.py
\* describe it.
\* ========================================================================
MaxSiteIndex == 2    \* the site indices 0..MaxSiteIndex
MaxCoord == 1        \* the coordinates 0..MaxCoord of a site

\* the sites of a structure: a species and a coordinate
PeriodicSites == [species : {"Si", "O"}, coords : 0..MaxCoord]

CeSymbols == {"T:4", "O:6"}

\* EnvironmentNode(central_site, i_central_site, ce_symbol)
EnvironmentNodes ==
    [central_site : PeriodicSites, i_central_site : 0..MaxSiteIndex, ce_symbol : CeSymbols]

\* __eq__: the nodes are those of the same site index
EnvEqAllFields(a, b) == a = b

EnvEq(a, b) == a.i_central_site = b.i_central_site

everything_equal(a, b) ==
    /\ EnvEq(a, b)
    /\ a.central_site = b.central_site
    /\ a.ce_symbol = b.ce_symbol

\* as_dict: the site as its own dict, the index and the symbol
EnvAsDict(a) ==
    <<<<"central_site", <<a.central_site.species, a.central_site.coords>>>>,
      <<"i_central_site", a.i_central_site>>,
      <<"ce_symbol", a.ce_symbol>>>>

DictGet(d, key) == d[CHOOSE i \in DOMAIN d : d[i][1] = key][2]

EnvFromDict(d) ==
    [central_site |-> [species |-> DictGet(d, "central_site")[1],
                       coords |-> DictGet(d, "central_site")[2]],
     i_central_site |-> DictGet(d, "i_central_site"),
     ce_symbol |-> DictGet(d, "ce_symbol")]

EnInit ==
    /\ EnOthersIdle
    /\ en_op = "init"
    /\ en = <<>>
    /\ en_other = <<>>
    /\ en_eq = FALSE
    /\ en_everything_equal = FALSE

Compare ==
    /\ EnOthers
    /\ en_op # "idle"
    /\ \E a, b \in EnvironmentNodes :
        /\ en' = a
        /\ en_other' = b
        /\ en_eq' = EnvEq(a, b)
        /\ en_everything_equal' = everything_equal(a, b)
    /\ en_op' = "compare"

RoundTrip ==
    /\ EnOthers
    /\ en_op # "idle"
    /\ \E a \in EnvironmentNodes :
        LET b == EnvFromDict(EnvAsDict(a))
        IN  /\ en' = a
            /\ en_other' = b
            /\ en_eq' = EnvEq(a, b)
            /\ en_everything_equal' = everything_equal(a, b)
    /\ en_op' = "from_dict"

EnNext ==
    \/ Compare
    \/ RoundTrip

\* ========================================================================
\* Specifications
\* ========================================================================
SpecGroup == GrpInit /\ [][GrpNext]_vars

SpecEntrySet == EsInit /\ [][EsNext]_vars

SpecFrag == FrInit /\ [][FrNext]_vars

SpecDPD == DpdInit /\ [][DpdNext]_vars

SpecRecip == RecInit /\ [][RecNext]_vars

SpecIR == IrInit /\ [][IrNext]_vars

SpecQModel == QmInit /\ [][QmNext]_vars

SpecPourbaix == PbxInit /\ [][PbxNext]_vars

SpecEnvNode == EnInit /\ [][EnNext]_vars

\* ------------------------------------------------------------------------
\* Properties of group_entries_by_structure
\* ------------------------------------------------------------------------
SameBag(s1, s2) ==
    /\ Len(s1) = Len(s2)
    /\ \A x \in Range(s1) \cup Range(s2) : Count(s1, x) = Count(s2, x)

\* the groups as a set of sets of entries
GroupSet(gs) == {Range(gs[g]) : g \in DOMAIN gs}

\* what the serial call returns for the current arguments
SerialGroups ==
    LET eh == EntriesHost(entries, species_to_remove)
        gs == PerformGrouping(eh, stol)
    IN  [g \in DOMAIN gs |-> LoadsEntries(gs[g])]

\* the groups _perform_grouping produces for task t, in its own order
TaskGroups(t) == PerformGrouping(ZipDecoded(tasks[t]), stol)

\* hosts that fit each other have the same comparator structure hash
FitImpliesSameHash ==
    \A i, j \in DOMAIN entries :
        LET hi == _get_host(entries[i].structure, species_to_remove)
            hj == _get_host(entries[j].structure, species_to_remove)
        IN  Fit(hi, hj, stol) =>
                get_structure_hash(comparator, hi) = get_structure_hash(comparator, hj)

\* C1: in serial mode (ncpus=None) the returned groups are a partition of the
\* input: every input entry is in exactly one group, no group is empty, and
\* the members are the original entries (with their own structures), not the
\* hosts.
C1_SerialPartition ==
    (pc = "done" /\ ncpus = 0) =>
        /\ SameBag(Flatten(entry_groups), entries)
        /\ \A g \in DOMAIN entry_groups : Len(entry_groups[g]) > 0
        /\ \A g \in DOMAIN entry_groups : \A k \in DOMAIN entry_groups[g] :
              \E i \in DOMAIN entries : entry_groups[g][k] = entries[i]

C1_Witness ==
    /\ pc = "done" /\ ncpus = 0 /\ species_to_remove
    /\ Len(entry_groups) >= 2
    /\ \E g \in DOMAIN entry_groups :
          /\ Len(entry_groups[g]) >= 2
          /\ \E k \in DOMAIN entry_groups[g] : entry_groups[g][k].structure.ion = 1

\* C2: when hosts that fit each other always have the same hash, the parallel
\* call returns the same set of groups (each group a set of entries) as the
\* serial call on the same arguments.
C2_ParallelEqualsSerial ==
    (pc = "done" /\ ncpus # 0 /\ FitImpliesSameHash) =>
        GroupSet(entry_groups) = GroupSet(SerialGroups)

C2_Witness ==
    /\ pc = "done" /\ ncpus # 0 /\ FitImpliesSameHash
    /\ Len(tasks) >= 2
    /\ \E g \in DOMAIN entry_groups : Len(entry_groups[g]) >= 2

\* C3: in parallel mode, whatever the interleaving of the workers' appends,
\* the returned list holds every group of every hash bucket exactly once, no
\* task is still pending or running, and only the order of groups can differ.
C3_AllGroupsOnce ==
    (pc = "done" /\ ncpus # 0) =>
        /\ \A t \in DOMAIN wstate : wstate[t] = "done"
        /\ SameBag(groups, Flatten([t \in DOMAIN tasks |-> TaskGroups(t)]))
        /\ entry_groups = [g \in DOMAIN groups |-> LoadsEntries(groups[g])]

\* two buckets were grouped and their appends were interleaved
C3_Witness ==
    /\ pc = "done" /\ ncpus # 0
    /\ Len(tasks) >= 2
    /\ groups # Flatten([t \in DOMAIN tasks |-> TaskGroups(t)])
    /\ SameBag(groups, Flatten([t \in DOMAIN tasks |-> TaskGroups(t)]))

\* C18: in parallel mode, two entries whose hosts have different comparator
\* structure hashes are never in the same returned group, also when their
\* hosts fit each other: every hash bucket is grouped as a task of its own.
HostHash(e) ==
    get_structure_hash(comparator, _get_host(e.structure, species_to_remove))

C18_HashesNeverMixed ==
    (pc = "done" /\ ncpus # 0) =>
        \A g \in DOMAIN entry_groups : \A k, l \in DOMAIN entry_groups[g] :
            HostHash(entry_groups[g][k]) = HostHash(entry_groups[g][l])

\* two entries whose hosts fit but hash differently came back in two groups
C18_Witness ==
    /\ pc = "done" /\ ncpus # 0
    /\ \E i, j \in DOMAIN entries :
          /\ Fit(_get_host(entries[i].structure, species_to_remove),
                 _get_host(entries[j].structure, species_to_remove), stol)
          /\ HostHash(entries[i]) # HostHash(entries[j])
          /\ \E g, h \in DOMAIN entry_groups :
                /\ g # h
                /\ entries[i] \in Range(entry_groups[g])
                /\ entries[j] \in Range(entry_groups[h])

\* ------------------------------------------------------------------------
\* Properties of EntrySet
\* ------------------------------------------------------------------------
FormulasOf(S) == {reduced_formula(e.composition) : e \in S}

WithFormula(S, f) == {e \in S : reduced_formula(e.composition) = f}

\* C4: after remove_non_ground_states the set holds exactly one entry per
\* reduced formula present before the call, that entry was in the set before,
\* and its energy_per_atom is the least among the previous entries of that
\* formula.
C4_GroundStates ==
    es_op = "remove_non_ground_states" =>
        /\ es_entries \subseteq es_prev
        /\ FormulasOf(es_entries) = FormulasOf(es_prev)
        /\ \A f \in FormulasOf(es_prev) :
              /\ Cardinality(WithFormula(es_entries, f)) = 1
              /\ \A e \in WithFormula(es_entries, f) :
                    \A d \in WithFormula(es_prev, f) :
                        e.energy_per_atom <= d.energy_per_atom

\* two formulas, one of them with entries of different compositions and
\* energies, of which the higher one was removed
C4_Witness ==
    /\ es_op = "remove_non_ground_states"
    /\ Cardinality(FormulasOf(es_prev)) >= 2
    /\ \E d \in es_prev \ es_entries : \E e \in es_entries :
          /\ reduced_formula(d.composition) = reduced_formula(e.composition)
          /\ d.composition # e.composition
          /\ d.energy_per_atom > e.energy_per_atom

\* C5: get_subset_in_chemsys(chemsys) returns exactly the entries all of
\* whose element symbols are in chemsys, and leaves the entries of the
\* original EntrySet unchanged.
C5_SubsetInChemsys ==
    es_op = "get_subset_in_chemsys" =>
        /\ \A e \in EsUniverse :
              e \in subset <=>
                 (e \in es_entries /\
                  \A el \in Elements : e.composition[el] > 0 => el \in chemsys)
        /\ es_entries = es_prev

\* chemsys [Li, O]: a Li, an O and a Li-O entry returned, an Fe-O one left out
C5_Witness ==
    /\ es_op = "get_subset_in_chemsys"
    /\ chemsys = {"Li", "O"}
    /\ \E e \in subset : SymbolsOf(e.composition) = {"Li", "O"}
    /\ \E e \in subset : SymbolsOf(e.composition) = {"Li"}
    /\ \E e \in es_entries \ subset : SymbolsOf(e.composition) = {"Fe", "O"}

\* ------------------------------------------------------------------------
\* Properties of the Fragmenter
\* ------------------------------------------------------------------------
\* no two fragments at different positions of the sequence are isomorphic
NoIsoPair(fs) == \A i, j \in DOMAIN fs : i # j => ~Isomorphic(fs[i], fs[j])

KeyedByOwnKey(d) ==
    \A i \in DOMAIN d : \A n \in DOMAIN d[i].frags : FragKey(d[i].frags[n]) = d[i].key

ParentsOf(k) == IF k = 0 THEN <<mol_graph>> ELSE AllFrags(fragments_by_level[k])

\* the fragments of level k
LevelFrags(k) == AllFrags(fragments_by_level[k + 1])

\* the fragments recorded in the levels before k
EarlierFrags(k) == Flatten([j \in 1..k |-> AllFrags(fragments_by_level[j])])

\* everything obtained by breaking one bond of a parent of level k
BrokenFrom(k) ==
    UNION {Range(ProducedBy(ParentsOf(k)[i], open_rings)) : i \in DOMAIN ParentsOf(k)}

Levels == 0..(Len(fragments_by_level) - 1)

\* C7 as stated: level k holds exactly (up to isomorphism, once each) the
\* fragments obtained by breaking one bond of a fragment of level k-1 (of the
\* molecule for k = 0) that are not isomorphic to a fragment recorded earlier
\* in the same run; so no fragment appears in two levels.
C7_LevelsExact ==
    depth >= 1 =>
        \A k \in Levels :
            /\ Range(LevelFrags(k)) \subseteq BrokenFrom(k)
            /\ NoIsoPair(EarlierFrags(k) \o LevelFrags(k))
            /\ \A f \in BrokenFrom(k) :
                  ~IsoToAny(EarlierFrags(k), f) => IsoToAny(LevelFrags(k), f)

\* C7 amended: as above, except that fragments isomorphic to a fragment of
\* prev_unique_frag_dict are left out of every level as well.
C7_LevelsExactButPrev ==
    depth >= 1 =>
        \A k \in Levels :
            /\ Range(LevelFrags(k)) \subseteq BrokenFrom(k)
            /\ NoIsoPair(EarlierFrags(k) \o LevelFrags(k))
            /\ \A n \in DOMAIN LevelFrags(k) :
                  ~IsoToAny(AllFrags(prev_unique_frag_dict), LevelFrags(k)[n])
            /\ \A f \in BrokenFrom(k) :
                  (/\ ~IsoToAny(EarlierFrags(k), f)
                   /\ ~IsoToAny(AllFrags(prev_unique_frag_dict), f))
                      => IsoToAny(LevelFrags(k), f)

\* two levels; a bond break at level 1 gave a fragment already recorded at
\* level 0, and another gave one known to the previous Fragmenter
C7_Witness ==
    /\ fr_pc = "done" /\ depth >= 2 /\ Len(fragments_by_level) >= 2
    /\ LevelFrags(1) # <<>>
    /\ \E f \in BrokenFrom(1) : IsoToAny(EarlierFrags(1), f)
    /\ \E f \in BrokenFrom(1) : IsoToAny(AllFrags(prev_unique_frag_dict), f)

\* ------------------------------------------------------------------------
\* Properties of the DefectPhaseDiagram
\* ------------------------------------------------------------------------
EntriesOfType(des, t) == LET Named(e) == e.name = t IN SelectSeq(des, Named)

\* C8: after construction the three dictionaries have exactly one key per
\* defect type, and the value under a type's name was computed from the
\* entries of that type only.
C8_KeyedByType ==
    dpd_op = "__init__" =>
        LET types == Range(_get_all_defect_types(dentries))
        IN  /\ DOMAIN stable_charges = types
            /\ DOMAIN finished_charges = types
            /\ DOMAIN transition_levels = types
            /\ \A t \in types :
                  LET own == EntriesOfType(dentries, t)
                      r == ScanType(own, t, band_gap)
                  IN  /\ stable_charges[t] = r.chg_type
                      /\ finished_charges[t] = ChargesOf(own, t)
                      /\ transition_levels[t] = r.trans_level

\* C9: add_defect_entry completes without error, appends the defect, and
\* leaves the three dictionaries equal to those of a diagram constructed
\* from the extended list.
C9_AddDefectEntry ==
    dpd_op = "add_defect_entry" =>
        /\ dpd_err = "none"
        /\ Len(dentries) > 0 /\ dentries[Len(dentries)] = dpd_arg
        /\ LET d == _set_dpd_nochempots(dentries, band_gap)
           IN  /\ stable_charges = d.stable
               /\ finished_charges = d.finished
               /\ transition_levels = d.levels

\* C10: list_formation_energies and list_defect_concentrations can be called
\* with their documented arguments and return one result per defect entry,
\* in the order of the entries, labelled with the entry's name and charge.
C10_ListsPerEntry ==
    dpd_op \in {"list_formation_energies", "list_defect_concentrations"} =>
        /\ dpd_err = "none"
        /\ Len(dpd_result) = Len(dentries)
        /\ \A i \in DOMAIN dentries :
              /\ dpd_result[i].name = dentries[i].name
              /\ dpd_result[i].charge = dentries[i].charge

\* C11: suggest_charges returns, for every defect type, a list of charges
\* each of which lies between min(stable charges)-1 and max(stable charges)+1
\* and is not among the finished charges of that type.
C11_SuggestedCharges ==
    dpd_op = "suggest_charges" =>
        LET types == Range(_get_all_defect_types(dentries))
        IN  /\ dpd_err = "none"
            /\ DOMAIN dpd_result = types
            /\ \A t \in types : \A n \in DOMAIN dpd_result[t] :
                  /\ dpd_result[t][n] >= MinOf(stable_charges[t]) - 1
                  /\ dpd_result[t][n] <= MaxOf(stable_charges[t]) + 1
                  /\ dpd_result[t][n] \notin Range(finished_charges[t])

\* ========================================================================
\* C12: genrecip yields exactly the non-zero reciprocal lattice vectors
\* i*b1 + j*b2 + k*b3 whose energy is within encut: it never yields the zero
\* vector or a vector beyond the cutoff, and it omits no lattice vector that
\* is within the cutoff, whatever the lattice (skewed ones included).
\* ========================================================================
IdxMax == MaxCut2 + MaxComp

\* the lattice vectors within the cutoff, searched over a box of indices that
\* contains the box of the loop
WithinCutoff(lat, cut2) ==
    LET b == RecipBasis(lat)
    IN  {v \in {LatticeVec(b, i, j, k) : i, j, k \in -IdxMax..IdxMax} :
            Norm2(v) <= cut2 /\ Norm2(v) # 0}

C12_GenrecipExact ==
    rec_op = "genrecip" =>
        Range(rec_result) = WithinCutoff(rec_lattice, rec_encut)

\* ========================================================================
\* C13: get_ir_spectra raises ValueError when broad is a list whose length
\* differs from the number of phonon frequencies; a single float broad is
\* the broadening of every phonon frequency; whenever nothing is raised the
\* result has exactly divs frequency samples, the first one emin and the
\* last one emax, where an emax left out is max_phfreq + 20 * max(broad).
\* ========================================================================
LargestFreq == CHOOSE f \in Range(phfreqs_gamma) : \A h \in Range(phfreqs_gamma) : h <= f

LargestBroad ==
    CHOOSE x \in Range(ir_broad.val) : \A y \in Range(ir_broad.val) : y <= x

GammaZeroOrAbsent ==
    \/ qm_args.gamma = <<>>
    \/ qm_args.gamma = <<0>>

C14_QModelValueError ==
    qm_op = "QModel" =>
        IF qm_args.expnorm # <<0>> /\ GammaZeroOrAbsent
        THEN qm_err = "ValueError"
        ELSE /\ qm_err = "none"
             /\ qm_obj.beta2 = qm_args.beta[1] * qm_args.beta[1]
             /\ qm_obj.gamma2 = qm_args.gamma[1] * qm_args.gamma[1]

\* ========================================================================
\* C15: the MultiEntry built from a list of PourbaixEntry objects has energy,
\* composition and nPhi equal to the sum of that attribute over the entries
\* of the list, and MultiEntry.from_dict(m.as_dict()) has the energy of m.
\* ========================================================================
RECURSIVE TotalOver(_, _)
TotalOver(l, n) == IF n = 0 THEN 0 ELSE TotalOver(l, n - 1) + l[n]

C15_MultiEntrySums ==
    /\ pbx_multi # <<>> =>
        LET l == pbx_multi.entry_list
            n == Len(l)
        IN  /\ MultiEnergy(pbx_multi) = TotalOver([i \in 1..n |-> l[i].energy], n)
            /\ MultinPhi(pbx_multi) = TotalOver([i \in 1..n |-> (0 - 2 * l[i].O) - l[i].charge], n)
            /\ MultiComposition(pbx_multi).Ag = TotalOver([i \in 1..n |-> l[i].Ag], n)
            /\ MultiComposition(pbx_multi).Te = TotalOver([i \in 1..n |-> l[i].Te], n)
            /\ MultiComposition(pbx_multi).O = TotalOver([i \in 1..n |-> l[i].O], n)
    /\ pbx_op = "from_dict" => MultiEnergy(pbx_multi_new) = MultiEnergy(pbx_multi)

\* a MultiEntry of a solid and an ion that went through as_dict and from_dict
C15_Witness ==
    /\ pbx_op = "from_dict"
    /\ Len(pbx_multi.entry_list) = 2
    /\ pbx_multi.entry_list[1].charge = 0 /\ pbx_multi.entry_list[2].charge = -1
    /\ pbx_multi.entry_list[1].energy = 1 /\ pbx_multi.entry_list[2].energy = 1
    /\ pbx_multi.entry_list[1].O = 1 /\ pbx_multi.entry_list[2].O = 1

C17_NodeEquality ==
    en_op \in {"compare", "from_dict"} =>
        /\ en_eq <=> (en.i_central_site = en_other.i_central_site)
        /\ en_everything_equal =>
               /\ en_eq
               /\ en.central_site = en_other.central_site
               /\ en.ce_symbol = en_other.ce_symbol
        /\ en_op = "from_dict" => en_everything_equal

\* two nodes of the same index on different sites with different symbols
C17_Witness ==
    /\ en_op = "compare"
    /\ en.i_central_site = en_other.i_central_site
    /\ en.central_site # en_other.central_site
    /\ en.ce_symbol # en_other.ce_symbol
    /\ en_eq /\ ~en_everything_equal

====
